---- MODULE Spec2Model ----
(***************************************************************************)
(* Model of the dynamic form component of src/app/page.tsx.                *)
(*                                                                         *)
(* The component keeps five pieces of React state (fields, formData,       *)
(* errors, progress, message) and has three event handlers.  Every handler *)
(* runs to completion on the values of the render it was created in, and   *)
(* the state updates it queued are applied before the next event.          *)
(*                                                                         *)
(* progress is a JavaScript number computed as (completed / required) *    *)
(* 100.  It is kept here as the exact fraction <<n, d>> in lowest terms,   *)
(* so that 100/3 is not rounded; <<50, 1>> is 50.                          *)
(***************************************************************************)
EXTENDS Integers, Sequences, FiniteSets, TLC

VARIABLES fields, formData, errors, progress, message,
          lastEvent, scenarioStep, failedSubmit

progVars == <<fields, formData, errors, progress, message>>
vars == <<fields, formData, errors, progress, message,
          lastEvent, scenarioStep, failedSubmit>>

---------------------------------------------------------------------------
(* The static catalog and the values the inputs can deliver.               *)

FormTypes == {"userInformation", "addressInformation", "paymentInformation"}

\* The <option> values of the form type dropdown, placeholder included.
FormTypeOptions == {""} \cup FormTypes

StateOptions == <<"California", "Texas", "New York">>

apiResponses ==
  [ userInformation |-> <<
      [name |-> "firstName", type |-> "text", label |-> "First Name", required |-> TRUE],
      [name |-> "lastName", type |-> "text", label |-> "Last Name", required |-> TRUE],
      [name |-> "age", type |-> "number", label |-> "Age", required |-> FALSE] >>,
    addressInformation |-> <<
      [name |-> "street", type |-> "text", label |-> "Street", required |-> TRUE],
      [name |-> "city", type |-> "text", label |-> "City", required |-> TRUE],
      [name |-> "state", type |-> "dropdown", label |-> "State", required |-> TRUE,
       options |-> StateOptions],
      [name |-> "zipCode", type |-> "text", label |-> "Zip Code", required |-> FALSE] >>,
    paymentInformation |-> <<
      [name |-> "cardNumber", type |-> "text", label |-> "Card Number", required |-> TRUE],
      [name |-> "expiryDate", type |-> "date", label |-> "Expiry Date", required |-> TRUE],
      [name |-> "cvv", type |-> "password", label |-> "CVV", required |-> TRUE],
      [name |-> "cardholderName", type |-> "text", label |-> "Cardholder Name",
       required |-> TRUE] >> ]

Range(s) == {s[i] : i \in 1..Len(s)}

\* The non-empty strings an input of the given kind is driven with.
TypedValues(type) ==
  CASE type = "text" -> {"Ann", "Lee"}
    [] type = "number" -> {"30"}
    [] type = "date" -> {"2030-01-31"}
    [] type = "password" -> {"123"}
    [] OTHER -> {}

\* e.target.value of the control rendered for a field.
InputValues(field) ==
  IF field.type = "dropdown"
    THEN {""} \cup Range(field.options)
    ELSE {""} \cup TypedValues(field.type)

---------------------------------------------------------------------------
(* Objects used as string maps.                                            *)

EmptyMap == <<>>

\* { ...m, [k]: v }
Put(m, k, v) == [x \in DOMAIN m \cup {k} |-> IF x = k THEN v ELSE m[x]]

\* delete m[k]
Remove(m, k) == [x \in DOMAIN m \ {k} |-> m[x]]

\* !m[k] : the key is absent (undefined) or holds the empty string.
Falsy(m, k) == k \notin DOMAIN m \/ m[k] = ""

---------------------------------------------------------------------------
(* Pure parts of the handlers.                                             *)

RECURSIVE Gcd(_, _)
Gcd(a, b) == IF b = 0 THEN a ELSE Gcd(b, a % b)

\* The number (completed / required) * 100 as a fraction in lowest terms.
\* A zero divisor gives JavaScript's NaN (0/0) or Infinity (k/0), written
\* <<0, 0>> and <<1, 0>>.
Pct(completed, required) ==
  IF required = 0
    THEN <<IF completed = 0 THEN 0 ELSE 1, 0>>
    ELSE LET g == Gcd(completed * 100, required)
         IN  <<(completed * 100) \div g, required \div g>>

\* The number 0 that useState(0) and setProgress(0) store.
ZeroProgress == <<0, 1>>

\* `${field.label} is required`
RequiredMessage(field) == field.label \o " is required"

SuccessMessage == "Form submitted successfully!"

FailureMessage == "Please fill out all required fields."

\* fields.find((field) => field.name === name): the index of the first
\* match, 0 when there is none (undefined).
FindField(flds, name) ==
  LET hits == {i \in 1..Len(flds) : flds[i].name = name}
  IN  IF hits = {} THEN 0 ELSE CHOOSE i \in hits : \A j \in hits : i <= j

\* NewErrors without the else branch: an error, once set, is never deleted.
NewErrorsNeverDeleted(errs, flds, name, value) ==
  LET i == FindField(flds, name)
  IN  IF i # 0 /\ flds[i].required /\ value = ""
        THEN Put(errs, name, flds[i].label \o " is required")
        ELSE errs

\* newErrors of validateField.
NewErrors(errs, flds, name, value) ==
  LET i == FindField(flds, name)
  IN  IF i # 0 /\ flds[i].required /\ value = ""
        THEN Put(errs, name, RequiredMessage(flds[i]))
        ELSE Remove(errs, name)

\* RequiredCount with the filter negated: the optional fields are counted.
RequiredCountOptional(flds) == Cardinality({i \in 1..Len(flds) : ~flds[i].required})

\* fields.filter((field) => field.required).length
RequiredCount(flds) == Cardinality({i \in 1..Len(flds) : flds[i].required})

\* Object.keys(formData).filter((key) => !newErrors[key]).length
CompletedCount(data, newErrors) ==
  Cardinality({k \in DOMAIN data : Falsy(newErrors, k)})

\* IsMissing testing only for an absent key: an emptied field passes.
IsMissingAbsentOnly(field, data) == field.required /\ field.name \notin DOMAIN data

\* field.required && !formData[field.name]
IsMissing(field, data) == field.required /\ Falsy(data, field.name)

\* IsValid looking only at the fields that have an entry in formData.
IsValidTouchedOnly(flds, data) ==
  \A i \in 1..Len(flds) :
    flds[i].name \in DOMAIN data => ~IsMissing(flds[i], data)

\* isValid after the forEach of handleSubmit.
IsValid(flds, data) == \A i \in 1..Len(flds) : ~IsMissing(flds[i], data)

\* MarkMissing without the !formData[field.name] test: every required field
\* from i on is flagged.
MarkMissingAllRequired(flds, data, errs, i) ==
  LET flagged == {j \in i..Len(flds) : flds[j].required}
  IN  [x \in DOMAIN errs \cup {flds[j].name : j \in flagged} |->
         IF \E j \in flagged : flds[j].name = x
           THEN (CHOOSE f \in {flds[j] : j \in flagged} : f.name = x).label
                  \o " is required"
           ELSE errs[x]]

\* MarkMissing stopping at the first missing field.
MarkMissingFirstOnly(flds, data, errs, i) ==
  LET missing == {j \in i..Len(flds) : IsMissing(flds[j], data)}
  IN  IF missing = {}
        THEN errs
        ELSE LET j == CHOOSE m \in missing : \A n \in missing : m <= n
             IN  Put(errs, flds[j].name, flds[j].label \o " is required")

\* The errors after the functional setErrors updates queued by the forEach
\* of handleSubmit for fields i..Len(flds), applied in order to errs.
RECURSIVE MarkMissing(_, _, _, _)
MarkMissing(flds, data, errs, i) ==
  IF i > Len(flds)
    THEN errs
    ELSE MarkMissing(flds, data,
                     IF IsMissing(flds[i], data)
                       THEN Put(errs, flds[i].name, RequiredMessage(flds[i]))
                       ELSE errs,
                     i + 1)

---------------------------------------------------------------------------
(* The handlers, on the component state.                                   *)

updateProgress(newErrors) ==
  progress' = Pct(CompletedCount(formData, newErrors), RequiredCount(fields))

validateField(name, value) ==
  /\ errors' = NewErrors(errors, fields, name, value)
  /\ updateProgress(errors')

\* handleInputChange with setMessage('') added.
handleInputChangeClearsMessage(name, value) ==
  /\ formData' = Put(formData, name, value)
  /\ validateField(name, value)
  /\ message' = ""
  /\ UNCHANGED fields

\* handleInputChange without the spread of formData.
handleInputChangeDropsOthers(name, value) ==
  /\ formData' = Put(EmptyMap, name, value)
  /\ validateField(name, value)
  /\ UNCHANGED <<fields, message>>

handleInputChange(name, value) ==
  /\ formData' = Put(formData, name, value)
  /\ validateField(name, value)
  /\ UNCHANGED <<fields, message>>

\* handleFormTypeChange without setErrors({}).
handleFormTypeChangeKeepsErrors(formType) ==
  /\ message' = ""
  /\ progress' = ZeroProgress
  /\ IF formType # "" /\ formType \in DOMAIN apiResponses
       THEN /\ fields' = apiResponses[formType]
            /\ formData' = EmptyMap
            /\ UNCHANGED errors
       ELSE UNCHANGED <<fields, formData, errors>>

\* handleFormTypeChange without setFormData({}).
handleFormTypeChangeKeepsValues(formType) ==
  /\ message' = ""
  /\ progress' = ZeroProgress
  /\ IF formType # "" /\ formType \in DOMAIN apiResponses
       THEN /\ fields' = apiResponses[formType]
            /\ errors' = EmptyMap
            /\ UNCHANGED formData
       ELSE UNCHANGED <<fields, formData, errors>>

\* handleFormTypeChange with an else branch that returns to the state with
\* no form selected.
handleFormTypeChangeClearsOnEmpty(formType) ==
  /\ message' = ""
  /\ progress' = ZeroProgress
  /\ formData' = EmptyMap
  /\ errors' = EmptyMap
  /\ fields' = IF formType # "" /\ formType \in DOMAIN apiResponses
                 THEN apiResponses[formType]
                 ELSE <<>>

\* handleFormTypeChange with setMessage('') and setProgress(0) moved into
\* the if.
handleFormTypeChangeResetsOnlyKnown(formType) ==
  IF formType # "" /\ formType \in DOMAIN apiResponses
    THEN /\ message' = ""
         /\ progress' = ZeroProgress
         /\ fields' = apiResponses[formType]
         /\ formData' = EmptyMap
         /\ errors' = EmptyMap
    ELSE UNCHANGED <<message, progress, fields, formData, errors>>

\* handleFormTypeChange with setFormData({}) and setErrors({}) moved out of
\* the if.
handleFormTypeChangeAlwaysClears(formType) ==
  /\ message' = ""
  /\ progress' = ZeroProgress
  /\ formData' = EmptyMap
  /\ errors' = EmptyMap
  /\ IF formType # "" /\ formType \in DOMAIN apiResponses
       THEN fields' = apiResponses[formType]
       ELSE UNCHANGED fields

handleFormTypeChange(formType) ==
  /\ message' = ""
  /\ progress' = ZeroProgress
  /\ IF formType # "" /\ formType \in DOMAIN apiResponses
       THEN /\ fields' = apiResponses[formType]
            /\ formData' = EmptyMap
            /\ errors' = EmptyMap
       ELSE UNCHANGED <<fields, formData, errors>>

\* handleSubmit whose failure branch appends to the message shown.
handleSubmitAppendsMessage ==
  /\ IF IsValid(fields, formData)
       THEN /\ message' = SuccessMessage
            /\ formData' = EmptyMap
            /\ errors' = EmptyMap
       ELSE /\ message' = message \o FailureMessage
            /\ errors' = MarkMissing(fields, formData, errors, 1)
            /\ UNCHANGED formData
  /\ UNCHANGED <<fields, progress>>

\* handleSubmit with setProgress(0) added to the success branch.
handleSubmitResetsProgress ==
  IF IsValid(fields, formData)
    THEN /\ message' = SuccessMessage
         /\ formData' = EmptyMap
         /\ errors' = EmptyMap
         /\ progress' = ZeroProgress
         /\ UNCHANGED fields
    ELSE /\ message' = FailureMessage
         /\ errors' = MarkMissing(fields, formData, errors, 1)
         /\ UNCHANGED <<formData, fields, progress>>

handleSubmit ==
  /\ IF IsValid(fields, formData)
       THEN /\ message' = SuccessMessage
            /\ formData' = EmptyMap
            /\ errors' = EmptyMap
       ELSE /\ message' = FailureMessage
            /\ errors' = MarkMissing(fields, formData, errors, 1)
            /\ UNCHANGED formData
  /\ UNCHANGED <<fields, progress>>

---------------------------------------------------------------------------
(* History kept beside the component state: the event just handled, how    *)
(* far the run so far follows the userInformation scenario, and the form   *)
(* values of a failed submit that is being corrected.                      *)

Event(op, name, value) == [op |-> op, name |-> name, value |-> value]

Scenario ==
  << Event("selectFormType", "", "userInformation"),
     Event("setFieldValue", "firstName", "Ann"),
     Event("setFieldValue", "lastName", "Lee"),
     Event("submit", "", "") >>

ScenarioOff == Len(Scenario) + 1

\* The run is the first scenarioStep events of Scenario and nothing else.
Follow(ev) ==
  scenarioStep' = IF scenarioStep < Len(Scenario) /\ Scenario[scenarioStep + 1] = ev
                    THEN scenarioStep + 1
                    ELSE ScenarioOff

NoFailedSubmit == [phase |-> "none", values |-> EmptyMap]

\* The event fills a required field that holds no non-empty value.
FillsMissing(name, value) ==
  /\ value # ""
  /\ Falsy(formData, name)
  /\ \E i \in 1..Len(fields) : fields[i].name = name /\ fields[i].required

Record(ev) ==
  /\ lastEvent' = ev
  /\ Follow(ev)

---------------------------------------------------------------------------
(* The events.                                                             *)

Init ==
  /\ fields = <<>>
  /\ formData = EmptyMap
  /\ errors = EmptyMap
  /\ progress = ZeroProgress
  /\ message = ""
  /\ lastEvent = Event("init", "", "")
  /\ scenarioStep = 0
  /\ failedSubmit = NoFailedSubmit

\* onChange of the form type <select>.
SelectFormType ==
  \E formType \in FormTypeOptions :
    /\ handleFormTypeChange(formType)
    /\ Record(Event("selectFormType", "", formType))
    /\ failedSubmit' = NoFailedSubmit

\* onChange of a rendered field control.
SetFieldValue ==
  /\ Len(fields) > 0
  /\ \E i \in 1..Len(fields) :
       \E value \in InputValues(fields[i]) :
         /\ handleInputChange(fields[i].name, value)
         /\ Record(Event("setFieldValue", fields[i].name, value))
         /\ failedSubmit' = IF failedSubmit.phase = "failed"
                                /\ FillsMissing(fields[i].name, value)
                              THEN failedSubmit
                              ELSE NoFailedSubmit

\* onSubmit of the rendered <form>.
Submit ==
  /\ Len(fields) > 0
  /\ handleSubmit
  /\ Record(Event("submit", "", ""))
  /\ failedSubmit' =
       IF ~IsValid(fields, formData)
         THEN [phase |-> "failed", values |-> formData]
         ELSE IF failedSubmit.phase = "failed"
                THEN [phase |-> "recovered", values |-> failedSubmit.values]
                ELSE NoFailedSubmit

Next == SelectFormType \/ SetFieldValue \/ Submit

Spec == Init /\ [][Next]_vars

---------------------------------------------------------------------------
(* Vocabulary of the properties.                                           *)

ActiveFields == Range(fields)

FieldNames == {f.name : f \in ActiveFields}

RequiredFields == {f \in ActiveFields : f.required}

\* The field has a non-empty entry in the given values.
Filled(values, f) == f.name \in DOMAIN values /\ values[f.name] # ""

AllRequiredFilled == \A f \in RequiredFields : Filled(formData, f)

\* p <= q for two progress fractions with positive divisors.
FracLeq(p, q) == p[1] * q[2] <= q[1] * p[2]

\* The progress fraction is the number k.
IsNumber(p, k) == p[2] # 0 /\ p[1] = k * p[2]

---------------------------------------------------------------------------
(* C1: submit() succeeds exactly when every required field of the active   *)
(* field-set has a non-empty entry in FormValues at the call; on success   *)
(* the message is "Form submitted successfully!" and FormValues and        *)
(* ValidationErrors are empty afterwards.                                  *)
C1_SubmitSucceedsIffRequiredFilled ==
  [][lastEvent'.op = "submit" =>
       /\ (message' = "Form submitted successfully!") <=> AllRequiredFilled
       /\ AllRequiredFilled => formData' = <<>> /\ errors' = <<>>]_vars

C1_Witness ==
  /\ lastEvent.op = "submit"
  /\ message = "Form submitted successfully!"
  /\ formData = <<>>
  /\ errors = <<>>
  /\ Len(fields) > 0

(* C2: a submit() with a required field missing leaves FormValues as it    *)
(* was, leaves a "<label> is required" entry in ValidationErrors for every *)
(* missing required field, and sets the message "Please fill out all       *)
(* required fields."; on a fresh paymentInformation form the four fields   *)
(* cardNumber, expiryDate, cvv and cardholderName are flagged.             *)
C2_FailedSubmitFlagsMissing ==
  [][lastEvent'.op = "submit" /\ ~AllRequiredFilled =>
       /\ formData' = formData
       /\ \A f \in RequiredFields :
            ~Filled(formData, f) =>
              /\ f.name \in DOMAIN errors'
              /\ errors'[f.name] = f.label \o " is required"
       /\ message' = "Please fill out all required fields."
       /\ (fields = apiResponses.paymentInformation /\ formData = <<>>) =>
            {"cardNumber", "expiryDate", "cvv", "cardholderName"} \subseteq DOMAIN errors']_vars

C2_Witness ==
  /\ lastEvent.op = "submit"
  /\ message = "Please fill out all required fields."
  /\ fields = apiResponses.paymentInformation
  /\ formData = <<>>
  /\ DOMAIN errors = {"cardNumber", "expiryDate", "cvv", "cardholderName"}

(* C3: for each of the three form types, from any state, selectFormType    *)
(* leaves the active field-set equal to the catalog's sequence for the     *)
(* type, FormValues and ValidationErrors empty, Progress 0 and the message *)
(* empty.                                                                  *)
C3_SelectResets ==
  \A t \in FormTypes :
    lastEvent = Event("selectFormType", "", t) =>
      /\ fields = apiResponses[t]
      /\ formData = <<>>
      /\ errors = <<>>
      /\ IsNumber(progress, 0)
      /\ message = ""

C3_Witness ==
  /\ lastEvent = Event("selectFormType", "", "addressInformation")
  /\ [i \in 1..Len(fields) |-> fields[i].name] = <<"street", "city", "state", "zipCode">>

(* C4: after setFieldValue(name, value) ValidationErrors has an entry for  *)
(* name exactly when the field is required and value is empty, and the     *)
(* entry is "<label> is required".                                         *)
C4_ErrorIffRequiredAndEmpty ==
  lastEvent.op = "setFieldValue" =>
    \A f \in ActiveFields :
      f.name = lastEvent.name =>
        /\ (f.name \in DOMAIN errors) <=> (f.required /\ lastEvent.value = "")
        /\ f.name \in DOMAIN errors => errors[f.name] = f.label \o " is required"

C4_Witness ==
  /\ lastEvent.op = "setFieldValue"
  /\ lastEvent.value = ""
  /\ lastEvent.name \in DOMAIN errors

(* C5: in every reachable state Progress is a number in [0, 100].          *)
C5_ProgressInRange ==
  /\ progress[2] > 0
  /\ 0 <= progress[1]
  /\ progress[1] <= 100 * progress[2]

(* C6: immediately after every setFieldValue, Progress is 100 times the    *)
(* number of required fields that have an entry in FormValues (the value   *)
(* just stored included) and no entry in ValidationErrors, divided by the  *)
(* number of required fields.                                              *)
C6_ProgressAfterSet ==
  lastEvent.op = "setFieldValue" =>
    LET done == {f \in RequiredFields :
                   f.name \in DOMAIN formData /\ f.name \notin DOMAIN errors}
    IN  progress[1] * Cardinality(RequiredFields)
          = 100 * Cardinality(done) * progress[2]

(* C7: the run select userInformation; set firstName "Ann"; set lastName   *)
(* "Lee"; submit passes through: field list [firstName, lastName, age];    *)
(* no firstName error and Progress 50; Progress 100; success message with  *)
(* FormValues and ValidationErrors empty.                                  *)
C7_UserInformationScenario ==
  /\ scenarioStep = 1 =>
       [i \in 1..Len(fields) |-> fields[i].name] = <<"firstName", "lastName", "age">>
  /\ scenarioStep = 2 =>
       "firstName" \notin DOMAIN errors /\ IsNumber(progress, 50)
  /\ scenarioStep = 3 => IsNumber(progress, 100)
  /\ scenarioStep = 4 =>
       /\ message = "Form submitted successfully!"
       /\ formData = <<>>
       /\ errors = <<>>

(* C8: in every reachable state every key of FormValues and every key of   *)
(* ValidationErrors is the name of a field of the active field-set.        *)
C8_KeysAreFieldNames ==
  /\ DOMAIN formData \subseteq FieldNames
  /\ DOMAIN errors \subseteq FieldNames

C8_Witness ==
  /\ formData # <<>>
  /\ errors # <<>>
  /\ DOMAIN errors # DOMAIN formData

(* C9: a setFieldValue that takes a required field from having no          *)
(* non-empty value to a non-empty value never lowers Progress.             *)
C9_ProgressMonotone ==
  [][lastEvent'.op = "setFieldValue"
       /\ FillsMissing(lastEvent'.name, lastEvent'.value)
       => FracLeq(progress, progress')]_vars

(* C10: after a failed submit(), once the user has set every required      *)
(* field that had no non-empty value to a non-empty value and done nothing *)
(* else, the next submit() succeeds; the non-empty values entered before   *)
(* the failed submit stay in FormValues throughout.                        *)
C10_CorrectOnlyMissing ==
  [][failedSubmit.phase = "failed" =>
       /\ \A k \in DOMAIN failedSubmit.values :
            failedSubmit.values[k] # "" =>
              k \in DOMAIN formData /\ formData[k] = failedSubmit.values[k]
       /\ ( /\ lastEvent'.op = "submit"
            /\ \A f \in RequiredFields :
                 ~Filled(failedSubmit.values, f) => Filled(formData, f) )
          => message' = "Form submitted successfully!"]_vars

C10_Witness ==
  /\ failedSubmit.phase = "recovered"
  /\ \E k \in DOMAIN failedSubmit.values : failedSubmit.values[k] # ""
  /\ lastEvent.op = "submit"
  /\ message = "Form submitted successfully!"

(* C11: selectFormType with the empty placeholder, or any value that is no  *)
(* known form type, leaves the active field-set, FormValues and            *)
(* ValidationErrors exactly as they were.                                  *)
C11_EmptySelectKeepsForm ==
  [][lastEvent'.op = "selectFormType" /\ lastEvent'.value \notin FormTypes =>
       /\ fields' = fields
       /\ formData' = formData
       /\ errors' = errors]_vars

C11_Witness ==
  /\ lastEvent = Event("selectFormType", "", "")
  /\ Len(fields) > 0
  /\ formData # <<>>
  /\ errors # <<>>

(* C12: a successful submit() leaves Progress at the value it had before,  *)
(* so a state with empty FormValues and Progress above 0 is reachable.     *)
C12_SubmitKeepsProgress ==
  [][lastEvent'.op = "submit" /\ AllRequiredFilled => progress' = progress]_vars

C12_Witness ==
  /\ lastEvent.op = "submit"
  /\ message = "Form submitted successfully!"
  /\ formData = <<>>
  /\ progress[1] > 0

(* C13: a state is reachable in which Progress is 100 while a required     *)
(* field of the active field-set has no entry in FormValues; submit() in   *)
(* such a state fails.                                                     *)
C13_FullProgressSubmitFails ==
  [][ /\ IsNumber(progress, 100)
      /\ \E f \in RequiredFields : f.name \notin DOMAIN formData
      /\ lastEvent'.op = "submit"
      => /\ message' = "Please fill out all required fields."
         /\ formData' = formData ]_vars

C13_Witness ==
  /\ IsNumber(progress, 100)
  /\ \E f \in RequiredFields : f.name \notin DOMAIN formData
  /\ lastEvent.op = "submit"
  /\ message = "Please fill out all required fields."

(* C14: in every reachable state, a field of the active field-set with an  *)
(* entry in ValidationErrors is required and has no value or the empty     *)
(* value in FormValues; and a required field whose entry in FormValues is  *)
(* empty has an entry in ValidationErrors.                                 *)
C14_ErrorsMatchValues ==
  \A f \in ActiveFields :
    /\ f.name \in DOMAIN errors => f.required /\ ~Filled(formData, f)
    /\ (f.required /\ f.name \in DOMAIN formData /\ formData[f.name] = "")
         => f.name \in DOMAIN errors

C14_Witness ==
  /\ \E f \in RequiredFields :
       f.name \in DOMAIN formData /\ formData[f.name] = "" /\ f.name \in DOMAIN errors
  /\ \E f \in RequiredFields :
       f.name \notin DOMAIN formData /\ f.name \in DOMAIN errors
  /\ \E f \in RequiredFields :
       Filled(formData, f) /\ f.name \notin DOMAIN errors

(* C15: setFieldValue(name, value) changes only the FormValues entry for   *)
(* name, the ValidationErrors entry for name and Progress; the field-set,  *)
(* the message and the entries of every other field stay as they were.     *)
C15_SetFieldValueFrame ==
  [][lastEvent'.op = "setFieldValue" =>
       /\ fields' = fields
       /\ message' = message
       /\ DOMAIN formData' \ {lastEvent'.name} = DOMAIN formData \ {lastEvent'.name}
       /\ \A k \in DOMAIN formData \ {lastEvent'.name} : formData'[k] = formData[k]
       /\ DOMAIN errors' \ {lastEvent'.name} = DOMAIN errors \ {lastEvent'.name}
       /\ \A k \in DOMAIN errors \ {lastEvent'.name} : errors'[k] = errors[k]]_vars

C15_Witness ==
  /\ lastEvent.op = "setFieldValue"
  /\ message = "Please fill out all required fields."
  /\ DOMAIN formData \ {lastEvent.name} # {}
  /\ DOMAIN errors \ {lastEvent.name} # {}

(* C16: selectFormType sets Progress to 0 and the message to empty for     *)
(* every input, the empty placeholder included; after selecting the        *)
(* placeholder Progress is 0 and the message empty while the FormValues    *)
(* entered before and the field-set are still in place.                    *)
C16_SelectAlwaysResetsProgressAndMessage ==
  [][lastEvent'.op = "selectFormType" =>
       /\ IsNumber(progress', 0)
       /\ message' = ""
       /\ lastEvent'.value = "" => formData' = formData /\ fields' = fields]_vars

C16_Witness ==
  /\ lastEvent = Event("selectFormType", "", "")
  /\ IsNumber(progress, 0)
  /\ message = ""
  /\ \E k \in DOMAIN formData : formData[k] # ""
  /\ Len(fields) > 0

(* C17: Progress is never computed with a zero divisor: whenever a field   *)
(* is rendered, so that setFieldValue can occur, the active field-set has  *)
(* at least one required field, and Progress is always a finite number.    *)
C17_NoZeroDivisor ==
  /\ Len(fields) > 0 => Cardinality(RequiredFields) > 0
  /\ progress[2] # 0

C17_Witness ==
  /\ lastEvent.op = "setFieldValue"
  /\ fields = apiResponses.addressInformation
  /\ progress[2] # 0
  /\ progress[1] > 0

(* C18: the active field-set is always empty or exactly one of the three   *)
(* catalog entries; selecting a known form type makes it non-empty, and    *)
(* once non-empty no event makes it empty again; a submit keeps the same   *)
(* field-set.                                                              *)
C18_FieldSetNeverEmptiedAgain ==
  [][ /\ fields = <<>> \/ \E t \in FormTypes : fields = apiResponses[t]
      /\ fields' = <<>> \/ \E t \in FormTypes : fields' = apiResponses[t]
      /\ fields # <<>> => fields' # <<>>
      /\ lastEvent'.op = "selectFormType" /\ lastEvent'.value \in FormTypes
           => fields' # <<>>
      /\ lastEvent'.op = "submit" => fields' = fields ]_vars

C18_Witness ==
  /\ lastEvent = Event("selectFormType", "", "")
  /\ fields = apiResponses.userInformation
  /\ formData = <<>>
  /\ errors # <<>>

(* C19: a failed submit() is idempotent: a submit() right after a failed   *)
(* submit() fails again and leaves the field-set, FormValues,              *)
(* ValidationErrors, Progress and the message as the first one left them.  *)
C19_FailedSubmitIdempotent ==
  [][ /\ lastEvent.op = "submit"
      /\ failedSubmit.phase = "failed"
      /\ lastEvent'.op = "submit"
      => /\ message' = "Please fill out all required fields."
         /\ progVars' = progVars ]_vars

C19_Witness ==
  /\ lastEvent.op = "submit"
  /\ failedSubmit.phase = "failed"
  /\ message = "Please fill out all required fields."
  /\ errors # <<>>
  /\ formData # <<>>
  /\ ~IsNumber(progress, 0)

====
